---- MODULE Spec2Model ----
(***************************************************************************)
(* State-machine model of ASCIIGame (src/ascii_game.py): one session of    *)
(* the text adventure, its world of five rooms, and the operations         *)
(* start_game, look, move, take, use and attack.                           *)
(***************************************************************************)
EXTENDS Integers, Sequences, FiniteSets, TLC

VARIABLES player, game_started, game_over, rooms, current_enemy, result, ops

vars == <<player, game_started, game_over, rooms, current_enemy, result, ops>>

\* Number of operations issued in one explored run.
MaxOps == 16

\* Python's None, for self.player and self.current_enemy.
None == [none |-> TRUE]

-----------------------------------------------------------------------------
(* Entity model *)

\* Item(name, description, item_type, damage, defense, healing); the
\* description is display text only and is left out.
Item(name, item_type, damage, defense, healing) ==
    [name |-> name, item_type |-> item_type, damage |-> damage,
     defense |-> defense, healing |-> healing]

\* Direction enum values.
Direction == {"north", "south", "east", "west"}

\* Player(name=player_name): the dataclass defaults.
NewPlayer ==
    [health |-> 100, max_health |-> 100, inventory |-> <<>>,
     current_room |-> "entrance", gold |-> 0, level |-> 1, experience |-> 0]

RoomIds == {"entrance", "main_cavern", "goblin_camp", "armory", "treasure_room"}

\* Room.exits of every room built by _create_world.
Exits(r) ==
    CASE r = "entrance"      -> [d \in {"north"} |-> "main_cavern"]
      [] r = "main_cavern"   -> [d \in Direction |->
                                   CASE d = "north" -> "treasure_room"
                                     [] d = "south" -> "entrance"
                                     [] d = "east"  -> "goblin_camp"
                                     [] d = "west"  -> "armory"]
      [] r = "goblin_camp"   -> [d \in {"west"} |-> "main_cavern"]
      [] r = "armory"        -> [d \in {"east"} |-> "main_cavern"]
      [] r = "treasure_room" -> [d \in {"south"} |-> "main_cavern"]

\* Room.enemies of every room built by _create_world (the templates).
Enemies(r) ==
    CASE r = "main_cavern" ->
           <<[name |-> "Cave Bat", health |-> 20, damage |-> 8, exp |-> 15]>>
      [] r = "goblin_camp" ->
           <<[name |-> "Goblin Warrior", health |-> 35, damage |-> 12, exp |-> 25]>>
      [] r = "treasure_room" ->
           <<[name |-> "Dragon Guardian", health |-> 100, damage |-> 20, exp |-> 100]>>
      [] OTHER -> <<>>

\* Room.items of every room as built by _create_world.
InitialItems(r) ==
    CASE r = "entrance" -> <<Item("Rusty Sword", "weapon", 5, 0, 0)>>
      [] r = "main_cavern" -> <<Item("Health Potion", "potion", 0, 0, 30)>>
      [] r = "goblin_camp" -> <<Item("Leather Armor", "armor", 0, 10, 0),
                                Item("Gold Coins", "treasure", 0, 0, 0)>>
      [] r = "armory" -> <<Item("Steel Sword", "weapon", 15, 0, 0),
                           Item("Iron Helmet", "armor", 0, 8, 0)>>
      [] r = "treasure_room" -> <<Item("Diamond Sword", "weapon", 25, 0, 0),
                                  Item("Golden Armor", "armor", 0, 20, 0),
                                  Item("Treasure Chest", "treasure", 0, 0, 0)>>

\* The world returned by _create_world: the mutable part of each Room (its
\* lists of items and of enemy templates, and the visited flag).
CreateWorld ==
    [r \in RoomIds |->
        [items |-> InitialItems(r), enemies |-> Enemies(r), visited |-> FALSE]]

-----------------------------------------------------------------------------
(* Strings *)

\* str.lower() on the strings that occur: item names and the inputs.
Lower(s) ==
    CASE s \in {"Rusty Sword", "RUSTY SWORD"} -> "rusty sword"
      [] s \in {"Health Potion", "HEALTH POTION"} -> "health potion"
      [] s = "Leather Armor"  -> "leather armor"
      [] s = "Gold Coins"     -> "gold coins"
      [] s = "Steel Sword"    -> "steel sword"
      [] s = "Iron Helmet"    -> "iron helmet"
      [] s = "Diamond Sword"  -> "diamond sword"
      [] s = "Golden Armor"   -> "golden armor"
      [] s = "Treasure Chest" -> "treasure chest"
      [] s = "NORTH"          -> "north"
      [] s = "East"           -> "east"
      [] OTHER -> s

\* "health" in s, for an already lowered s.
ContainsHealth(s) == s \in {"health potion", "health"}

\* Arguments given to move.
DirectionInputs == {"north", "south", "east", "west", "NORTH", "East", "up"}

\* Arguments given to take and use.
NameInputs ==
    {"rusty sword", "RUSTY SWORD", "health potion", "iron helmet",
     "leather armor", "gold coins", "steel sword", "treasure chest", "torch"}

-----------------------------------------------------------------------------
(* List helpers *)

\* The name match without lower(): names are compared as given.
FirstMatch_CaseSensitive(seq, item_name) ==
    LET hits == {i \in 1..Len(seq) : seq[i].name = item_name}
    IN  IF hits = {} THEN 0 ELSE CHOOSE i \in hits : \A j \in hits : i <= j

\* Index of the first element of seq satisfying the name match, 0 if none:
\* the for loop of take and use.
FirstMatch(seq, item_name) ==
    LET hits == {i \in 1..Len(seq) : Lower(seq[i].name) = Lower(item_name)}
    IN  IF hits = {} THEN 0 ELSE CHOOSE i \in hits : \A j \in hits : i <= j

\* list.remove(x) left out: the list stays as it is.
Remove_Nothing(seq, x) == seq

\* list.remove(x): removes the first element equal to x.
Remove(seq, x) ==
    LET hits == {i \in 1..Len(seq) : seq[i] = x}
        k == CHOOSE i \in hits : \A j \in hits : i <= j
    IN  IF hits = {} THEN seq
        ELSE [i \in 1..(Len(seq) - 1) |-> IF i < k THEN seq[i] ELSE seq[i + 1]]

RECURSIVE SumDamage(_)
\* sum(item.damage for item in inventory if item.item_type == WEAPON)
SumDamage(inv) ==
    IF inv = <<>> THEN 0
    ELSE (IF Head(inv).item_type = "weapon" THEN Head(inv).damage ELSE 0)
         + SumDamage(Tail(inv))

RECURSIVE SumDefense(_)
\* sum(item.defense for item in inventory if item.item_type == ARMOR)
SumDefense(inv) ==
    IF inv = <<>> THEN 0
    ELSE (IF Head(inv).item_type = "armor" THEN Head(inv).defense ELSE 0)
         + SumDefense(Tail(inv))

Max(a, b) == IF a >= b THEN a ELSE b
Min(a, b) == IF a <= b THEN a ELSE b

-----------------------------------------------------------------------------
(* Operations *)

Init ==
    /\ player = None
    /\ game_started = FALSE
    /\ game_over = FALSE
    /\ rooms = CreateWorld
    /\ current_enemy = None
    /\ result = "Constructed"
    /\ ops = 0

\* Every operation is one call; a run issues at most MaxOps calls.
Call == ops < MaxOps /\ ops' = ops + 1

\* _get_room_description, for a started game, in room r with enemy e:
\* the new value of rooms (visited set).
Visit(r) == [rooms EXCEPT ![r].visited = TRUE]

\* Spawn with the enemy check left out: arriving never creates an enemy.
Spawn_Never(r, e) == {e}

\* _get_room_description, enemy check: the values current_enemy may take
\* after the call, in room r when the enemy before the call is e
\* (random.choice of a template, copied).
Spawn(r, e) ==
    IF rooms[r].enemies # <<>> /\ e = None
    THEN {rooms[r].enemies[i] : i \in 1..Len(rooms[r].enemies)}
    ELSE {e}

\* start_game that also builds the world anew.
start_game_NewWorld ==
    /\ Call
    /\ player' = NewPlayer
    /\ game_started' = TRUE
    /\ game_over' = FALSE
    /\ rooms' = [CreateWorld EXCEPT ![NewPlayer.current_room].visited = TRUE]
    /\ current_enemy' = None
    /\ result' = "Welcome"

\* start_game without the reset of current_enemy.
start_game_KeepEnemy ==
    /\ Call
    /\ player' = NewPlayer
    /\ game_started' = TRUE
    /\ game_over' = FALSE
    /\ rooms' = Visit(NewPlayer.current_room)
    /\ current_enemy' \in Spawn(NewPlayer.current_room, current_enemy)
    /\ result' = "Welcome"

start_game ==
    /\ Call
    /\ player' = NewPlayer
    /\ game_started' = TRUE
    /\ game_over' = FALSE
    /\ rooms' = Visit(NewPlayer.current_room)
    /\ current_enemy' \in Spawn(NewPlayer.current_room, None)
    /\ result' = "Welcome"

look ==
    /\ Call
    /\ IF ~game_started
       THEN /\ result' = "NotStarted"
            /\ UNCHANGED <<player, game_started, game_over, rooms, current_enemy>>
       ELSE /\ rooms' = Visit(player.current_room)
            /\ current_enemy' \in Spawn(player.current_room, current_enemy)
            /\ result' = "Look"
            /\ UNCHANGED <<player, game_started, game_over>>

\* The combat check of move with the check left out.
InCombat_Never(e) == FALSE

\* `if self.current_enemy:` in move.
InCombat(e) == e # None

\* Direction(direction) without the lower().
DirEnum_NoLower(direction) == direction

\* Direction(direction.lower()): the enum value, or a string outside
\* Direction when the constructor raises ValueError.
DirEnum(direction) == Lower(direction)

move(direction) ==
    /\ Call
    /\ IF ~game_started
       THEN /\ result' = "NotStarted"
            /\ UNCHANGED <<player, game_started, game_over, rooms, current_enemy>>
       ELSE IF InCombat(current_enemy)
       THEN /\ result' = "InCombat"
            /\ UNCHANGED <<player, game_started, game_over, rooms, current_enemy>>
       ELSE IF DirEnum(direction) \notin Direction
       THEN /\ result' = "InvalidDirection"
            /\ UNCHANGED <<player, game_started, game_over, rooms, current_enemy>>
       ELSE IF DirEnum(direction) \notin DOMAIN Exits(player.current_room)
       THEN /\ result' = "NoSuchExit"
            /\ UNCHANGED <<player, game_started, game_over, rooms, current_enemy>>
       ELSE LET target == Exits(player.current_room)[DirEnum(direction)]
            IN  /\ player' = [player EXCEPT !.current_room = target]
                /\ rooms' = Visit(target)
                /\ current_enemy' \in Spawn(target, current_enemy)
                /\ result' = "Moved"
                /\ UNCHANGED <<game_started, game_over>>

\* The gold reward keyed by the type alone: every treasure is worth 50.
GoldReward_AnyTreasure(item) == IF item.item_type = "treasure" THEN 50 ELSE 0

\* Gold reward of take for a taken item: the TREASURE branch.
GoldReward(item) ==
    IF item.item_type = "treasure"
    THEN (IF item.name = "Gold Coins" THEN 50
          ELSE IF item.name = "Treasure Chest" THEN 200 ELSE 0)
    ELSE 0

take(item_name) ==
    /\ Call
    /\ IF ~game_started
       THEN /\ result' = "NotStarted"
            /\ UNCHANGED <<player, game_started, game_over, rooms, current_enemy>>
       ELSE LET room == rooms[player.current_room]
                k == FirstMatch(room.items, item_name)
            IN  IF k = 0
                THEN /\ result' = "ItemNotFound"
                     /\ UNCHANGED <<player, game_started, game_over, rooms,
                                    current_enemy>>
                ELSE LET item == room.items[k]
                     IN  /\ player' =
                              [player EXCEPT
                                 !.inventory = Append(@, item),
                                 !.gold = @ + GoldReward(item)]
                         /\ rooms' =
                              [rooms EXCEPT
                                 ![player.current_room].items = Remove(@, item)]
                         /\ result' = "Taken"
                         /\ UNCHANGED <<game_started, game_over, current_enemy>>

\* The healing of use without the clamp to max_health.
Heal_NoClamp(p, item) == p.health + item.healing

\* min(max_health, health + item.healing) in use.
Heal(p, item) == Min(p.max_health, p.health + item.healing)

\* The test of use with the type and name checks left out.
Usable_Any(item) == TRUE

\* item_type == POTION and "health" in item.name.lower(), in use.
Usable(item) == item.item_type = "potion" /\ ContainsHealth(Lower(item.name))

use(item_name) ==
    /\ Call
    /\ IF ~game_started
       THEN /\ result' = "NotStarted"
            /\ UNCHANGED <<player, game_started, game_over, rooms, current_enemy>>
       ELSE LET k == FirstMatch(player.inventory, item_name)
            IN  IF k = 0
                THEN /\ result' = "NotInInventory"
                     /\ UNCHANGED <<player, game_started, game_over, rooms,
                                    current_enemy>>
                ELSE LET item == player.inventory[k]
                     IN  IF Usable(item)
                         THEN /\ player' =
                                   [player EXCEPT
                                      !.health = Heal(player, item),
                                      !.inventory = Remove(@, item)]
                              /\ result' = "Used"
                              /\ UNCHANGED <<game_started, game_over, rooms,
                                             current_enemy>>
                         ELSE /\ result' = "NotUsable"
                              /\ UNCHANGED <<player, game_started, game_over,
                                             rooms, current_enemy>>

\* base_damage of attack.
BaseDamage == 5

\* total_damage with the base damage left out.
TotalDamage_NoBase(inv) == SumDamage(inv)

\* total_damage with the weapons left out.
TotalDamage_NoWeapons(inv) == BaseDamage

\* total_damage of attack: base damage plus every carried weapon.
TotalDamage(inv) == BaseDamage + SumDamage(inv)

\* actual_damage with min in place of max.
ActualDamage_Min(enemy_damage, inv) == Min(1, enemy_damage - SumDefense(inv))

\* actual_damage without the floor of 1.
ActualDamage_NoFloor(enemy_damage, inv) == enemy_damage - SumDefense(inv)

\* actual_damage of attack: what the surviving enemy deals to the player.
ActualDamage(enemy_damage, inv) == Max(1, enemy_damage - SumDefense(inv))

RECURSIVE LevelUp_Loop(_)
\* The level-up check repeated until the threshold is no longer met.
LevelUp_Loop(p) ==
    IF p.experience >= p.level * 50
    THEN LevelUp_Loop([p EXCEPT !.level = @ + 1,
                                !.max_health = @ + 20,
                                !.health = p.max_health + 20])
    ELSE p

\* The level-up check of attack, applied to the player after the award.
LevelUp(p) ==
    IF p.experience >= p.level * 50
    THEN [p EXCEPT !.level = @ + 1,
                   !.max_health = @ + 20,
                   !.health = p.max_health + 20]
    ELSE p

\* The defeat check with < in place of <=.
EnemyDefeated_Strict(e) == e.health < 0

\* `if self.current_enemy['health'] <= 0:` in attack.
EnemyDefeated(e) == e.health <= 0

\* The player defeat check left out: game_over is never set.
PlayerDefeated_Never(p) == FALSE

\* `if self.player.health <= 0:` in attack.
PlayerDefeated(p) == p.health <= 0

\* The body of attack.
attack_body ==
    /\ IF ~game_started
       THEN /\ result' = "NotStarted"
            /\ UNCHANGED <<player, game_started, game_over, rooms, current_enemy>>
       ELSE IF current_enemy = None
       THEN /\ result' = "NoEnemy"
            /\ UNCHANGED <<player, game_started, game_over, rooms, current_enemy>>
       ELSE LET hit == [current_enemy EXCEPT
                          !.health = @ - TotalDamage(player.inventory)]
            IN  IF EnemyDefeated(hit)
                THEN /\ player' =
                          LevelUp([player EXCEPT !.experience = @ + hit.exp])
                     /\ current_enemy' = None
                     /\ result' = "EnemyDefeated"
                     /\ UNCHANGED <<game_started, game_over, rooms>>
                ELSE LET hurt == [player EXCEPT
                                    !.health = @ - ActualDamage(hit.damage,
                                                                player.inventory)]
                     IN  /\ player' = hurt
                         /\ current_enemy' = hit
                         /\ game_over' = (IF PlayerDefeated(hurt) THEN TRUE
                                          ELSE game_over)
                         /\ result' = (IF PlayerDefeated(hurt)
                                       THEN "PlayerDefeated" ELSE "Exchange")
                         /\ UNCHANGED <<game_started, rooms>>

attack ==
    /\ Call
    /\ attack_body

Next ==
    \/ start_game
    \/ look
    \/ \E direction \in DirectionInputs : move(direction)
    \/ \E item_name \in NameInputs : take(item_name)
    \/ \E item_name \in NameInputs : use(item_name)
    \/ attack

Spec == Init /\ [][Next]_vars

\* A run that has used up its calls goes on by issuing attack only.
KeepAttacking ==
    /\ ops = MaxOps
    /\ ops' = ops
    /\ attack_body

NextAttacking ==
    \/ Next
    \/ KeepAttacking

\* The runs in which attack keeps being issued.
SpecAttacking ==
    Init /\ [][NextAttacking]_vars /\ WF_vars(attack \/ KeepAttacking)

-----------------------------------------------------------------------------
(* Properties *)

\* Everything of the session except the bookkeeping of the last call.
GameState == <<player, game_started, game_over, rooms, current_enemy>>

\* One of the mutating operations is called.
Mutating ==
    \/ \E direction \in DirectionInputs : move(direction)
    \/ \E item_name \in NameInputs : take(item_name)
    \/ \E item_name \in NameInputs : use(item_name)
    \/ attack

\* C1: once game_over is set, move, take, use and attack leave the player,
\* the active enemy and the rooms unchanged.
C1_GameOverFreezes ==
    [][(game_over /\ Mutating) => UNCHANGED <<player, current_enemy, rooms>>]_vars

\* C2 as stated: 0 <= health <= max_health in every state of a started
\* session, except the state the defeating attack itself produces.
C2_HealthInRange ==
    game_started =>
        /\ player.health <= player.max_health
        /\ (player.health < 0 => result = "PlayerDefeated")

\* C2 amended: health never exceeds max_health, and health is at least 0 in
\* every state of a started session in which game_over is not set.
C2_HealthInRangeUnlessGameOver ==
    game_started =>
        /\ player.health <= player.max_health
        /\ (~game_over => player.health >= 0)

\* C2 witness: a fight has cost health and a defeat has been recorded.
C2_Witness ==
    /\ game_started
    /\ game_over
    /\ player.health < 0

\* C3: with an active enemy, move(d) answers InCombat for every d and
\* changes nothing.
C3_MoveRejectedInCombat ==
    [][\A direction \in DirectionInputs :
          (game_started /\ current_enemy # None /\ move(direction))
          => (result' = "InCombat" /\ UNCHANGED GameState)]_vars

\* C3 witness: a move was refused while an enemy is active.
C3_Witness == result = "InCombat" /\ current_enemy # None

\* C4: look never changes whether an active enemy exists.
C4_LookNeverSpawns ==
    [][look => ((current_enemy = None) <=> (current_enemy' = None))]_vars

\* C5: without an active enemy, move(d) goes to exactly the exit for d when
\* the room has one, and otherwise is rejected and changes nothing.
C5_MoveFollowsExits ==
    [][\A direction \in DirectionInputs :
          (game_started /\ current_enemy = None /\ move(direction))
          => LET r == player.current_room
                 d == Lower(direction)
             IN  IF d \in Direction /\ d \in DOMAIN Exits(r)
                 THEN /\ result' = "Moved"
                      /\ player'.current_room = Exits(r)[d]
                 ELSE /\ result' \in {"InvalidDirection", "NoSuchExit"}
                      /\ UNCHANGED GameState]_vars

\* C5 witness: a move has arrived in the Treasure Chamber, which is entered
\* only by the north exit of the Main Cavern, with no enemy active before.
C5_Witness ==
    /\ result = "Moved"
    /\ player.current_room = "treasure_room"

\* C6: a successful move ends with an active enemy equal to one of the
\* templates of the room arrived in (health = base health) when that room has
\* templates, and with no active enemy when it has none.
C6_ArrivalSpawns ==
    [][\A direction \in DirectionInputs :
          (move(direction) /\ result' = "Moved")
          => LET templates == Enemies(player'.current_room)
             IN  IF templates # <<>>
                 THEN \E i \in 1..Len(templates) : current_enemy' = templates[i]
                 ELSE current_enemy' = None]_vars

\* C6 witness: arrived in a room with a template, its enemy at base health.
C6_Witness ==
    /\ result = "Moved"
    /\ player.current_room = "goblin_camp"
    /\ current_enemy # None
    /\ current_enemy.health = 35

\* C7: an active enemy has the name, damage and experience of a template of
\* the room the player is in.
C7_EnemyOfCurrentRoom ==
    (game_started /\ current_enemy # None) =>
        \E i \in 1..Len(Enemies(player.current_room)) :
            LET t == Enemies(player.current_room)[i]
            IN  /\ current_enemy.name = t.name
                /\ current_enemy.damage = t.damage
                /\ current_enemy.exp = t.exp

\* C7 witness: a session restarted after the sword was taken (the entrance is
\* empty, the inventory too) is in combat in the cavern, the enemy hit.
C7_Witness ==
    /\ game_started
    /\ current_enemy # None
    /\ current_enemy.health < 20
    /\ player.current_room = "main_cavern"
    /\ player.inventory = <<>>
    /\ rooms["entrance"].items = <<>>

\* C8: an attack turns enemy health H into H - (5 + D); when that is <= 0 the
\* reward is added to experience, the enemy is cleared and the player's
\* health does not decrease.
C8_AttackDamage ==
    [][(game_started /\ current_enemy # None /\ attack)
       => LET left == current_enemy.health - (5 + SumDamage(player.inventory))
          IN  IF left <= 0
              THEN /\ player'.experience = player.experience + current_enemy.exp
                   /\ current_enemy' = None
                   /\ player'.health >= player.health
              ELSE /\ current_enemy' # None
                   /\ current_enemy'.health = left]_vars

\* C8 witness: an enemy was killed by a player carrying weapons.
C8_Witness ==
    /\ result = "EnemyDefeated"
    /\ SumDamage(player.inventory) > 0
    /\ player.experience > 0

\* C9: when the enemy survives, the player loses exactly max(1, E - F); the
\* loss is exactly 1 whenever E - F <= 0.
C9_RetaliationFloor ==
    [][(game_started /\ current_enemy # None /\ attack /\ current_enemy' # None)
       => LET E == current_enemy.damage
              F == SumDefense(player.inventory)
              loss == player.health - player'.health
          IN  /\ loss = (IF E - F <= 0 THEN 1 ELSE E - F)
              /\ loss >= 1]_vars

\* C9 witness: the Cave Bat (damage 8) has hit a player carrying the Leather
\* Armor (defense 10).
C9_Witness ==
    /\ result = "Exchange"
    /\ current_enemy # None
    /\ current_enemy.name = "Cave Bat"
    /\ SumDefense(player.inventory) = 10

\* C10: a killing attack checks the level once: experience >= level * 50
\* after the award gives level + 1, max_health + 20 and health = max_health;
\* otherwise level, max_health and health stay.
C10_LevelCheckedOnce ==
    [][(game_started /\ current_enemy # None /\ attack /\ current_enemy' = None)
       => LET awarded == player.experience + current_enemy.exp
          IN  IF awarded >= player.level * 50
              THEN /\ player'.level = player.level + 1
                   /\ player'.max_health = player.max_health + 20
                   /\ player'.health = player'.max_health
              ELSE /\ player'.level = player.level
                   /\ player'.max_health = player.max_health
                   /\ player'.health = player.health]_vars

\* C10 witness: a kill whose award passed the thresholds of two levels
\* raised the level from 1 to 2 only.
C10_Witness ==
    /\ result = "EnemyDefeated"
    /\ player.level = 2
    /\ player.experience >= 100
    /\ player.health = 120
    /\ player.max_health = 120

\* The indices of the entries of seq whose name is item_name up to case.
Matches(seq, item_name) ==
    {i \in 1..Len(seq) : Lower(seq[i].name) = Lower(item_name)}

\* C11: take(n) succeeds exactly when an entry of the room's list matches n
\* up to case; it then removes the first such entry, and only it, appends it
\* to the inventory, and leaves no entry matching n, so that a second take(n)
\* finds nothing; a take that finds nothing is rejected and changes nothing.
C11_TakeOnce ==
    [][\A item_name \in NameInputs :
          (game_started /\ take(item_name))
          => LET r == player.current_room
                 items == rooms[r].items
                 hits == Matches(items, item_name)
             IN  IF hits = {}
                 THEN /\ result' = "ItemNotFound"
                      /\ UNCHANGED GameState
                 ELSE LET k == CHOOSE i \in hits : \A j \in hits : i <= j
                      IN  /\ result' = "Taken"
                          /\ rooms'[r].items =
                               SubSeq(items, 1, k - 1)
                               \o SubSeq(items, k + 1, Len(items))
                          /\ player'.inventory =
                               Append(player.inventory, items[k])
                          /\ Matches(rooms'[r].items, item_name) = {}]_vars

\* C11 witness: a take was rejected in the entrance, whose only item is
\* already in the inventory.
C11_Witness ==
    /\ result = "ItemNotFound"
    /\ player.current_room = "entrance"
    /\ rooms["entrance"].items = <<>>
    /\ Len(player.inventory) = 1
    /\ player.inventory[1].name = "Rusty Sword"

\* C12: a successful take adds 50 gold for the Gold Coins, 200 for the
\* Treasure Chest and nothing for any other item; start_game sets gold to 0
\* and no other operation changes gold.
C12_GoldRewards ==
    [][game_started' =>
         IF result' = "Welcome"
         THEN player'.gold = 0
         ELSE /\ game_started
              /\ IF result' = "Taken"
                 THEN LET item == player'.inventory[Len(player'.inventory)]
                      IN  player'.gold - player.gold =
                            (IF item.name = "Gold Coins" THEN 50
                             ELSE IF item.name = "Treasure Chest" THEN 200
                             ELSE 0)
                 ELSE player'.gold = player.gold]_vars

\* C12 witness: both treasures have been taken in one session.
C12_Witness ==
    /\ game_started
    /\ result = "Taken"
    /\ player.gold = 250

\* C13: use(n) on a carried item that is not a potion answers NotUsable and
\* changes nothing.
C13_UseNonPotion ==
    [][\A item_name \in NameInputs :
          (/\ game_started
           /\ use(item_name)
           /\ Matches(player.inventory, item_name) # {}
           /\ \A i \in Matches(player.inventory, item_name) :
                 player.inventory[i].item_type # "potion")
          => (result' = "NotUsable" /\ UNCHANGED GameState)]_vars

\* C13 witness: the use of a carried weapon was refused.
C13_Witness ==
    /\ result = "NotUsable"
    /\ Len(player.inventory) > 0
    /\ \A i \in 1..Len(player.inventory) :
          player.inventory[i].item_type # "potion"

\* C14: use(n) on a carried healing potion sets health to
\* min(max_health, health + healing) and removes that one item from the
\* inventory; use(n) with no carried match is rejected and changes nothing.
C14_UsePotion ==
    [][\A item_name \in NameInputs :
          (game_started /\ use(item_name))
          => LET inv == player.inventory
                 hits == Matches(inv, item_name)
             IN  IF hits = {}
                 THEN /\ result' = "NotInInventory"
                      /\ UNCHANGED GameState
                 ELSE LET k == CHOOSE i \in hits : \A j \in hits : i <= j
                          sum == player.health + inv[k].healing
                      IN  (inv[k].item_type = "potion"
                           /\ inv[k].name = "Health Potion")
                          => /\ result' = "Used"
                             /\ player'.health =
                                  (IF sum > player.max_health
                                   THEN player.max_health ELSE sum)
                             /\ Len(player'.inventory) = Len(inv) - 1
                             /\ player'.inventory =
                                  SubSeq(inv, 1, k - 1)
                                  \o SubSeq(inv, k + 1, Len(inv))]_vars

\* C14 witness: a potion was used by a wounded player and healed the full 30
\* without reaching max_health.
C14_Witness ==
    /\ result = "Used"
    /\ player.health < player.max_health
    /\ player.health > 30

\* The scenario's state in the Main Cavern: empty inventory, level 1, no
\* experience yet, the Cave Bat at enemy_health and the player at health.
InBatFight(enemy_health, health) ==
    /\ game_started
    /\ player.current_room = "main_cavern"
    /\ player.inventory = <<>>
    /\ player.level = 1
    /\ player.experience = 0
    /\ player.health = health
    /\ current_enemy # None
    /\ current_enemy.name = "Cave Bat"
    /\ current_enemy.health = enemy_health

\* The scenario's last state: the bat is cleared after three hits taken.
BatFightWon ==
    /\ player.current_room = "main_cavern"
    /\ player.inventory = <<>>
    /\ player.level = 1
    /\ player.experience = 15
    /\ player.health = 76
    /\ current_enemy = None

\* C15: start_game; move(north) meets the Cave Bat at health 20; the attacks
\* with an empty inventory go 20 -> 15 -> 10 -> 5 -> cleared, the player
\* going 100 -> 92 -> 84 -> 76 and not hit by the fourth; experience is then
\* 15 and the level still 1.
C15_Scenario ==
    [][/\ (result = "Welcome" /\ move("north")) => InBatFight(20, 100)'
       /\ (InBatFight(20, 100) /\ attack) => InBatFight(15, 92)'
       /\ (InBatFight(15, 92) /\ attack) => InBatFight(10, 84)'
       /\ (InBatFight(10, 84) /\ attack) => InBatFight(5, 76)'
       /\ (InBatFight(5, 76) /\ attack) => BatFightWon']_vars

\* C15 witness: the fourth attack of the scenario has cleared the bat.
C15_Witness ==
    /\ result = "EnemyDefeated"
    /\ BatFightWon
    /\ player.max_health = 100
    /\ player.gold = 0

\* C16 as stated: in every state reached by an attack, experience is below
\* the threshold level * 50 of the level reached.
C16_BelowThreshold ==
    (game_started /\ result \in {"EnemyDefeated", "Exchange", "PlayerDefeated"})
    => player.experience < player.level * 50

\* C16 amended: a killing attack applies the leveling rule once: either the
\* level stays and experience is below level * 50, or the award met the
\* threshold and the level rises by one, whatever experience is left above
\* the next threshold.
C16_RuleAppliedOnce ==
    [][(game_started /\ current_enemy # None /\ attack /\ current_enemy' = None)
       => \/ /\ player'.level = player.level
             /\ player'.experience < player'.level * 50
          \/ /\ player'.level = player.level + 1
             /\ player'.experience >= player.level * 50]_vars

\* C16 witness: a kill has raised the level and left experience at or above
\* the threshold of the new level.
C16_Witness ==
    /\ game_started
    /\ result = "EnemyDefeated"
    /\ player.level > 1
    /\ player.experience >= player.level * 50

\* C17: an active enemy has health above 0 and at most the base health of
\* its template in the current room, and the templates stored in the rooms
\* are those the world was built with.
C17_EnemyAliveTemplateIntact ==
    /\ \A r \in RoomIds : rooms[r].enemies = Enemies(r)
    /\ (game_started /\ current_enemy # None)
       => /\ current_enemy.health > 0
          /\ \E i \in 1..Len(rooms[player.current_room].enemies) :
                LET t == rooms[player.current_room].enemies[i]
                IN  /\ t.name = current_enemy.name
                    /\ current_enemy.health <= t.health

\* C17 witness: an enemy that has been hit down to its last 5 health is
\* still active.
C17_Witness ==
    /\ game_started
    /\ current_enemy # None
    /\ current_enemy.health = 5
    /\ current_enemy.name = "Goblin Warrior"

\* C18: health <= 0 implies game_over.
C18_DeadImpliesGameOver ==
    game_started => (player.health <= 0 => game_over)

\* C18 witness: the attack that brought health to 0 or below has just set
\* game_over.
C18_Witness ==
    /\ result = "PlayerDefeated"
    /\ game_over
    /\ player.health <= 0
    /\ player.health > -20

\* C19: every accepted attack clears the enemy or lowers its health by at
\* least 5, and in a run that keeps issuing attack every state with an
\* active enemy is followed by one in which the enemy is cleared or the
\* session is game-over.
C19_EncounterEnds ==
    /\ [][(game_started /\ current_enemy # None /\ (attack \/ KeepAttacking))
          => \/ current_enemy' = None
             \/ current_enemy'.health <= current_enemy.health - 5]_vars
    /\ (current_enemy # None) ~> (current_enemy = None \/ game_over)

\* C19 witness: the run went on attacking after its other calls were used
\* up and killed the Dragon Guardian.
C19_Witness ==
    /\ ops = MaxOps
    /\ result = "EnemyDefeated"
    /\ current_enemy = None
    /\ player.current_room = "treasure_room"
    /\ player.experience >= 100

RECURSIVE IsSubList(_, _)
\* s is t with some entries left out, the order kept.
IsSubList(s, t) ==
    IF s = <<>> THEN TRUE
    ELSE IF t = <<>> THEN FALSE
    ELSE IF Head(s) = Head(t) THEN IsSubList(Tail(s), Tail(t))
    ELSE IsSubList(s, Tail(t))

\* The entries of a list, as a set.
Entries(seq) == {seq[i] : i \in 1..Len(seq)}

\* C20: every room's item list is a sub-list of its initial list, no item is
\* both in a room and in the inventory (nor twice in the inventory), and an
\* item enters the inventory only by a take that removes it from the room the
\* player is in.
C20_ItemsConserved ==
    /\ [](/\ \A r \in RoomIds : IsSubList(rooms[r].items, InitialItems(r))
          /\ game_started =>
               /\ \A r \in RoomIds :
                     Entries(rooms[r].items) \cap Entries(player.inventory) = {}
               /\ Cardinality(Entries(player.inventory)) = Len(player.inventory))
    /\ [][(game_started /\ game_started')
          => \A item \in Entries(player'.inventory) \ Entries(player.inventory) :
                /\ result' = "Taken"
                /\ player'.current_room = player.current_room
                /\ item \in Entries(rooms[player.current_room].items)
                /\ item \notin Entries(rooms'[player.current_room].items)]_vars

\* C20 witness: the armory has been emptied into an inventory that already
\* held an item of another room.
C20_Witness ==
    /\ game_started
    /\ rooms["armory"].items = <<>>
    /\ Len(player.inventory) = 3
    /\ player.inventory[1].name = "Rusty Sword"

\* C21: start_game, in any state, gives the default player (health and
\* max_health 100, level 1, experience 0, gold 0, empty inventory, in the
\* entrance), clears the active enemy and game_over, and leaves every room's
\* item list as it was: an item carried before the restart is afterwards in
\* no room and not in the inventory.
C21_StartGameResets ==
    [][start_game
       => /\ game_started'
          /\ ~game_over'
          /\ current_enemy' = None
          /\ player'.health = 100
          /\ player'.max_health = 100
          /\ player'.level = 1
          /\ player'.experience = 0
          /\ player'.gold = 0
          /\ player'.inventory = <<>>
          /\ player'.current_room = "entrance"
          /\ \A r \in RoomIds : rooms'[r].items = rooms[r].items
          /\ game_started
             => \A item \in Entries(player.inventory) :
                   /\ item \notin Entries(player'.inventory)
                   /\ \A r \in RoomIds : item \notin Entries(rooms'[r].items)]_vars

\* C21 witness: a session restarted after the sword and the potion were
\* taken: both rooms are empty and so is the inventory.
C21_Witness ==
    /\ result = "Welcome"
    /\ player.inventory = <<>>
    /\ rooms["entrance"].items = <<>>
    /\ rooms["main_cavern"].items = <<>>

====
